---- MODULE Spec2Model ----
(***************************************************************************)
(* ServiceOpsAI: the tool registry (backend/core/tool_registry.py) and the *)
(* MCP server manager (backend/core/mcp_server_manager.py), with the       *)
(* startup and reload paths that drive them.                               *)
(*                                                                         *)
(* Strings that the code parses (tool references, catalog keys) are        *)
(* sequences of tokens: a token is either a separator (":" or ",") or a    *)
(* run of other characters.  "mcp:github:create_issue" is                  *)
(* <<"mcp", ":", "github", ":", "create_issue">>.                          *)
(***************************************************************************)
EXTENDS Integers, Sequences, FiniteSets, TLC

VARIABLES
    tools,                \* ToolRegistry._tools: the catalog, in insertion order
    mcp_runtime_cache,    \* ToolRegistry._mcp_runtime_cache: reference -> handle
    lock,                 \* ToolRegistry._lock: 0 when free, else the holder
    handles,              \* every MCPTools / MultiMCPTools constructed, in order
    made,                 \* number of calls of local factories so far
    clears,               \* number of clear_mcp_cache calls so far
    rt,                   \* the get_tool_runtime calls in flight
    agent_out,            \* the last get_tools_for_agent call: its argument and result
    config,               \* MCPServerManager.config["mcp_servers"]
    initialized_servers,  \* MCPServerManager.initialized_servers
    task,                 \* the initialize_server calls in flight
    batch,                \* the initialize_all_servers call in flight
    returned,             \* per server, the booleans initialize_server returned
    call,                 \* the last call of a configuration helper of the manager
    request               \* the run_agent requests in flight, per client

vars == <<tools, mcp_runtime_cache, lock, handles, made, clears, rt, agent_out,
          config, initialized_servers, task, batch, returned, call, request>>

registryVars == <<tools, mcp_runtime_cache, lock, handles, made, clears, rt, agent_out>>
managerVars == <<config, initialized_servers, task, batch, returned, call>>
routeVars == <<request>>

----------------------------------------------------------------------------
(* Bounds *)

\* concurrent callers of get_tool_runtime
NumCallers == 2
\* handles and local instances constructed in one behaviour
MaxObjects == 2
\* clear_mcp_cache calls in one behaviour
MaxClears == 1

None == "None"

Callers == 1 .. NumCallers

----------------------------------------------------------------------------
(* Strings *)

Servers == {"A", "B", "C"}

\* what a successful list_tools() probe of each server returns
Discovered == [A |-> <<"t1", "t2">>, B |-> <<"t1">>, C |-> <<"t3">>]

RECURSIVE SplitOn(_, _)
\* str.split(sep), on token sequences
SplitOn(s, sep) ==
    IF \A i \in 1 .. Len(s) : s[i] # sep
    THEN <<s>>
    ELSE LET i == CHOOSE k \in 1 .. Len(s) :
                      s[k] = sep /\ \A j \in 1 .. (k - 1) : s[j] # sep
         IN  <<SubSeq(s, 1, i - 1)>> \o SplitOn(SubSeq(s, i + 1, Len(s)), sep)

\* ref.startswith("mcp:")
StartsWithMcp(ref) == Len(ref) >= 2 /\ ref[1] = "mcp" /\ ref[2] = ":"

\* the text of a name: one token, or the empty string
Text(name) == IF name = "" THEN <<>> ELSE <<name>>

\* f"mcp:{server}:{name}" if name else f"mcp:{server}"
FullName(name, server) ==
    IF name # None /\ name # ""
    THEN <<"mcp", ":">> \o Text(server) \o <<":">> \o Text(name)
    ELSE <<"mcp", ":">> \o Text(server)

Range(s) == {s[i] : i \in DOMAIN s}

----------------------------------------------------------------------------
(* Configuration dictionaries *)

\* A dict with the keys the code reads; a key that is absent reads None (env: the
\* empty mapping, as in config.get("env", {})).  env is a set of <<name, value>>.
Dict(command, env, type, description) ==
    [command |-> command, env |-> env, type |-> type, description |-> description]

\* {}
EmptyDict == Dict(None, {}, None, None)

\* bool(d) of a dict
Truthy(d) == d # EmptyDict

\* dict.update: keys of g win
DictUpdate(f, g) == {p \in f : \A q \in g : q[1] # p[1]} \cup g

\* _build_command of a stdio server that names an executable
CommandOf == [A |-> "python a_server.py", B |-> "npx b-server", C |-> "uvx c-server"]

\* _resolve_env_vars(server_config.get("env", {}))
EnvOf == [A |-> {<<"TOKEN", "a">>}, B |-> {}, C |-> {<<"TOKEN", "c">>}]

----------------------------------------------------------------------------
(* ToolRegistry: the catalog *)

Keys(cat) == {cat[i].key : i \in DOMAIN cat}

DictSet_append(cat, entry) == Append(cat, entry)

\* self._tools[key] = entry: a key already present keeps its position
DictSet(cat, entry) ==
    IF entry.key \in Keys(cat)
    THEN [i \in DOMAIN cat |-> IF cat[i].key = entry.key THEN entry ELSE cat[i]]
    ELSE Append(cat, entry)

\* self._tools[key]
Lookup(cat, key) == cat[CHOOSE i \in DOMAIN cat : cat[i].key = key]

register_local_tool(cat, name, description) ==
    DictSet(cat, [key |-> Text(name), name |-> name, type |-> "local",
                  server |-> None, runtime_factory |-> "factory",
                  config |-> Dict(None, {}, None, description)])

register_mcp_tool(cat, name, server, cfg) ==
    DictSet(cat, [key |-> FullName(name, server),
                  name |-> IF name # None /\ name # "" THEN name ELSE server,
                  type |-> "mcp", server |-> server, runtime_factory |-> None,
                  config |-> cfg])

RECURSIVE RegisterEach(_, _, _, _)
\* for tool in tools: self.register_mcp_tool(tool, server, config)
RegisterEach(cat, server, tls, cfg) ==
    IF tls = <<>> THEN cat
    ELSE RegisterEach(register_mcp_tool(cat, Head(tls), server, cfg), server, Tail(tls), cfg)

register_mcp_server_tools_noloop(cat, server, tls, cfg) ==
    register_mcp_tool(cat, None, server, cfg)

register_mcp_server_tools(cat, server, tls, cfg) ==
    register_mcp_tool(RegisterEach(cat, server, tls, cfg), None, server, cfg)

\* startup.register_local_tools
register_local_tools(cat) ==
    register_local_tool(
        register_local_tool(cat, "DuckDuckGoTools", "Web search capabilities via DuckDuckGo"),
        "YFinanceTools", "Financial data and stock market analysis")

----------------------------------------------------------------------------
(* ToolRegistry: resolution *)

\* What a resolution returns: None, a handle (id: its index in handles) or a local
\* instance (id: the number of the factory call that made it).
NoneResult == [kind |-> "None", id |-> 0, of |-> ""]
HandleResult(h) == [kind |-> "handle", id |-> h, of |-> ""]
LocalResult_singleton(name, n) == [kind |-> "local", id |-> 1, of |-> name]
LocalResult(name, n) == [kind |-> "local", id |-> n, of |-> name]

\* A constructed MCPTools / MultiMCPTools.  commands: the launch command(s);
\* env: {} stands for None; include_tools: <<>> stands for None (the code never
\* passes an empty list).  key, epoch and by record which call built it, for
\* which reference(s), and after how many cache clears.
Handle(cls, commands, env, include, by, key, servers) ==
    [cls |-> cls, commands |-> commands, env |-> env, include_tools |-> include,
     by |-> by, key |-> key, servers |-> servers, epoch |-> clears]

CacheRefs == {p[1] : p \in mcp_runtime_cache}

CacheHit_never(ref) == FALSE

\* tool_ref in self._mcp_runtime_cache
CacheHit(ref) == ref \in CacheRefs

\* self._mcp_runtime_cache[tool_ref]
Cached(ref) == (CHOOSE p \in mcp_runtime_cache : p[1] = ref)[2]

SetMax(S) == CHOOSE x \in S : \A y \in S : y <= x
SetMin(S) == CHOOSE x \in S : \A y \in S : x <= y

\* the catalog positions of the MCP entries of the server named by `part`
ServerEntries(cat, part) ==
    {i \in DOMAIN cat : cat[i].type = "mcp" /\ Text(cat[i].server) = part}

\* _get_mcp_runtime's scan: the config of the last entry of the server that has one
\* (EmptyDict when there is none: server_config stays None)
ScanServerConfig(cat, part) ==
    LET I == {i \in ServerEntries(cat, part) : Truthy(cat[i].config)}
    IN  IF I = {} THEN EmptyDict ELSE cat[SetMax(I)].config

\* _get_mcp_runtime: [result, handles, cache] after the call
get_mcp_runtime(ref) ==
    LET parts == SplitOn(ref, ":")
        server == parts[2]
        specific == IF Len(parts) > 2 THEN SubSeq(parts, 3, Len(parts)) ELSE <<>>
        server_config == ScanServerConfig(tools, server)
        unchanged(r) == [result |-> r, handles |-> handles, cache |-> mcp_runtime_cache]
    IN  IF CacheHit(ref) THEN unchanged(HandleResult(Cached(ref)))
        ELSE IF Len(parts) < 2 THEN unchanged(NoneResult)
        ELSE IF ~Truthy(server_config) THEN unchanged(NoneResult)
        ELSE [result |-> HandleResult(Len(handles) + 1),
              handles |-> Append(handles,
                  Handle("MCPTools", <<server_config.command>>, server_config.env,
                         specific, "get_tool_runtime", <<ref>>, <<server>>)),
              cache |-> mcp_runtime_cache \cup {<<ref, Len(handles) + 1>>}]

CombineOne_unchecked(cat, ref) ==
    LET parts == SplitOn(ref, ":")
    IN  <<[server |-> parts[2], command |-> None,
           tools |-> IF Len(parts) > 2 THEN SplitOn(parts[3], ",") ELSE <<>>,
           env |-> {}]>>

\* One entry of _get_combined_mcp_runtime's `servers` dict, for reference `ref`
\* (<<>> when the reference adds none): the first entry of the server with a config
CombineOne(cat, ref) ==
    LET parts == SplitOn(ref, ":")
        server == parts[2]
        tls == IF Len(parts) > 2 THEN SplitOn(parts[3], ",") ELSE <<>>
        I == {i \in DOMAIN cat : cat[i].type = "mcp" /\ Text(cat[i].server) = server
                                 /\ Truthy(cat[i].config)}
    IN  IF Len(parts) < 2 \/ I = {} THEN <<>>
        ELSE <<[server |-> server, command |-> cat[SetMin(I)].config.command,
                tools |-> tls, env |-> cat[SetMin(I)].config.env]>>

RECURSIVE CombineServers(_, _, _)
\* the loop over mcp_refs: `acc` is the servers dict so far, in insertion order
CombineServers(cat, refs, acc) ==
    IF refs = <<>> THEN acc
    ELSE LET one == CombineOne(cat, Head(refs))
         IN  CombineServers(cat, Tail(refs),
                 IF one = <<>> \/ \E i \in DOMAIN acc : acc[i].server = one[1].server
                 THEN acc ELSE acc \o one)

RECURSIVE MergedEnv(_)
\* all_env after the loop
MergedEnv(servers) ==
    IF servers = <<>> THEN {}
    ELSE DictUpdate(MergedEnv(SubSeq(servers, 1, Len(servers) - 1)),
                    servers[Len(servers)].env)

RECURSIVE ExtendAll(_)
\* include_tools.extend(info["tools"]) over the servers
ExtendAll(servers) ==
    IF servers = <<>> THEN <<>> ELSE Head(servers).tools \o ExtendAll(Tail(servers))

\* _get_combined_mcp_runtime: <<>> for None, else <<the handle it constructs>>
get_combined_mcp_runtime(mcp_refs) ==
    LET servers == CombineServers(tools, mcp_refs, <<>>)
        names == [i \in DOMAIN servers |-> servers[i].server]
    IN  IF servers = <<>> THEN <<>>
        ELSE IF Len(servers) = 1
        THEN <<Handle("MCPTools", <<servers[1].command>>, MergedEnv(servers),
                      servers[1].tools, "combined", mcp_refs, names)>>
        ELSE <<Handle("MultiMCPTools", [i \in DOMAIN servers |-> servers[i].command],
                      MergedEnv(servers), ExtendAll(servers), "combined", mcp_refs, names)>>

----------------------------------------------------------------------------
(* ToolRegistry: the calls *)

Mcp(server) == FullName(None, server)
McpTool(server, name) == FullName(name, server)
\* "mcp:{server}:{first},{second}"
McpTools2(server, first, second) == FullName(first, server) \o <<",", second>>
\* "mcp:{server}[{first},{second}]"
McpBracket2(server, first, second) ==
    <<"mcp", ":">> \o Text(server) \o <<"[", first, ",", second, "]">>

\* the references get_tool_runtime is called with
RefInputs ==
    {Mcp("A"), McpTool("A", "t1"), Mcp("Z"), <<"DuckDuckGoTools">>}

\* references that are no catalog key: a server with two of its tools in either
\* order, a server with a tool it does not have, and a name nothing was
\* registered under
SubsetRefInputs ==
    {McpTools2("A", "t1", "t2"), McpTools2("A", "t2", "t1"), McpTool("A", "nope"),
     <<"Unknown">>}

\* the reference lists get_tools_for_agent is called with
AgentRequests ==
    {<<Mcp("A")>>,
     <<<<"DuckDuckGoTools">>, Mcp("A"), Mcp("B")>>}

\* tool lists of agent configurations: remote references before, between and
\* after local ones, an unknown name, a server nothing is registered for, one
\* server named twice with different tools, a tool subset next to a whole
\* server, a subset in brackets, an unclosed bracket, and an empty server name
AgentToolLists ==
    {<<Mcp("A"), <<"Unknown">>, <<"DuckDuckGoTools">>, Mcp("B")>>,
     <<Mcp("Z"), <<"YFinanceTools">>, <<"Unknown">>, <<"DuckDuckGoTools">>>>,
     <<<<"DuckDuckGoTools">>, Mcp("Z")>>,
     <<McpTool("A", "t1"), McpTool("A", "t2")>>,
     <<McpTools2("A", "t1", "t2"), Mcp("B")>>,
     <<McpTool("A", "t2"), Mcp("B")>>,
     <<McpBracket2("A", "t1", "t2")>>,
     <<<<"mcp", ":", "A", "[", "t1">>, <<"DuckDuckGoTools">>>>,
     <<<<"mcp", ":">>, <<"DuckDuckGoTools">>>>}

\* the reference get_tool_runtime is called with while agents are built
AgentRefInputs == {<<"YFinanceTools">>}

\* no get_tools_for_agent call has returned yet
NoAgentCall == [refs |-> <<>>, out |-> <<>>]

IdleCall == [pc |-> "idle", ref |-> <<>>, res |-> NoneResult, epoch |-> 0]

\* objects constructed so far
Objects == Len(handles) + made

\* get_tool_runtime is called and passes `async with self._lock`, which lets it
\* through when the lock is free
CallRuntime(t, ref) ==
    /\ rt[t].pc = "idle"
    /\ Objects < MaxObjects
    /\ lock = 0
    /\ lock' = t
    /\ rt' = [rt EXCEPT ![t] = [pc |-> "locked", ref |-> ref, res |-> NoneResult, epoch |-> 0]]
    /\ UNCHANGED <<tools, mcp_runtime_cache, handles, made, clears, agent_out>>
    /\ UNCHANGED <<managerVars, routeVars>>

\* the body of get_tool_runtime, under the lock, and the release on exit
get_tool_runtime(t) ==
    LET ref == rt[t].ref
        isLocal == ref \in Keys(tools) /\ Lookup(tools, ref).type = "local"
        metadata == Lookup(tools, ref)
        r == get_mcp_runtime(ref)
        done(res) == rt' = [rt EXCEPT ![t] = [pc |-> "done", ref |-> ref,
                                               res |-> res, epoch |-> clears]]
    IN  /\ rt[t].pc = "locked"
        /\ lock = t
        /\ lock' = 0
        /\ IF isLocal
           THEN IF metadata.runtime_factory # None
                THEN /\ made' = made + 1
                     /\ done(LocalResult(metadata.name, made + 1))
                     /\ UNCHANGED <<handles, mcp_runtime_cache>>
                ELSE /\ done(NoneResult)
                     /\ UNCHANGED <<made, handles, mcp_runtime_cache>>
           ELSE IF StartsWithMcp(ref)
           THEN /\ done(r.result)
                /\ handles' = r.handles
                /\ mcp_runtime_cache' = r.cache
                /\ UNCHANGED made
           ELSE /\ done(NoneResult)
                /\ UNCHANGED <<made, handles, mcp_runtime_cache>>
        /\ UNCHANGED <<tools, clears, agent_out>>
        /\ UNCHANGED <<managerVars, routeVars>>

\* the exception a local factory or the MCPTools constructor raised
RaisedResult == [kind |-> "raised", id |-> 0, of |-> ""]

RuntimeRaises_holds(t) ==
    LET ref == rt[t].ref
    IN  /\ rt[t].pc = "locked"
        /\ lock = t
        /\ \/ /\ ref \in Keys(tools) /\ Lookup(tools, ref).type = "local"
              /\ Lookup(tools, ref).runtime_factory # None
           \/ /\ ref \notin Keys(tools) \/ Lookup(tools, ref).type # "local"
              /\ StartsWithMcp(ref) /\ ~CacheHit(ref)
              /\ Len(SplitOn(ref, ":")) >= 2
              /\ Truthy(ScanServerConfig(tools, SplitOn(ref, ":")[2]))
        /\ rt' = [rt EXCEPT ![t] = [pc |-> "done", ref |-> ref,
                                    res |-> RaisedResult, epoch |-> clears]]
        /\ UNCHANGED <<tools, mcp_runtime_cache, lock, handles, made, clears, agent_out>>
        /\ UNCHANGED <<managerVars, routeVars>>

\* the body of get_tool_runtime when the local factory or the MCPTools
\* constructor it reaches raises: the exception leaves "async with self._lock",
\* which releases the lock; no instance exists and nothing was cached
RuntimeRaises(t) ==
    LET ref == rt[t].ref
    IN  /\ rt[t].pc = "locked"
        /\ lock = t
        /\ \/ /\ ref \in Keys(tools) /\ Lookup(tools, ref).type = "local"
              /\ Lookup(tools, ref).runtime_factory # None
           \/ /\ ref \notin Keys(tools) \/ Lookup(tools, ref).type # "local"
              /\ StartsWithMcp(ref) /\ ~CacheHit(ref)
              /\ Len(SplitOn(ref, ":")) >= 2
              /\ Truthy(ScanServerConfig(tools, SplitOn(ref, ":")[2]))
        /\ lock' = 0
        /\ rt' = [rt EXCEPT ![t] = [pc |-> "done", ref |-> ref,
                                    res |-> RaisedResult, epoch |-> clears]]
        /\ UNCHANGED <<tools, mcp_runtime_cache, handles, made, clears, agent_out>>
        /\ UNCHANGED <<managerVars, routeVars>>

\* get_tool_runtime is called while another task holds the lock: the caller
\* waits in "async with self._lock"
AwaitLock(t, ref) ==
    /\ rt[t].pc = "idle"
    /\ Objects < MaxObjects
    /\ lock # 0
    /\ rt' = [rt EXCEPT ![t] = [pc |-> "waiting", ref |-> ref, res |-> NoneResult, epoch |-> 0]]
    /\ UNCHANGED <<tools, mcp_runtime_cache, lock, handles, made, clears, agent_out>>
    /\ UNCHANGED <<managerVars, routeVars>>

\* a waiting caller is given the lock that was released
AcquireLock(t) ==
    /\ rt[t].pc = "waiting"
    /\ lock = 0
    /\ lock' = t
    /\ rt' = [rt EXCEPT ![t] = [@ EXCEPT !.pc = "locked"]]
    /\ UNCHANGED <<tools, mcp_runtime_cache, handles, made, clears, agent_out>>
    /\ UNCHANGED <<managerVars, routeVars>>

\* the caller has its result and goes on
ReturnRuntime(t) ==
    /\ rt[t].pc = "done"
    /\ rt' = [rt EXCEPT ![t] = IdleCall]
    /\ UNCHANGED <<tools, mcp_runtime_cache, lock, handles, made, clears, agent_out>>
    /\ UNCHANGED <<managerVars, routeVars>>

RECURSIVE SelectSeq2(_, _)
\* the elements of s, in order, that are (keep = TRUE) or are not MCP references
SelectSeq2(s, keep) ==
    IF s = <<>> THEN <<>>
    ELSE (IF StartsWithMcp(Head(s)) = keep THEN <<Head(s)>> ELSE <<>>)
         \o SelectSeq2(Tail(s), keep)

RECURSIVE LocalInstances(_, _)
\* get_tool_runtime of each non-MCP reference in turn; n factory calls were made before
LocalInstances(refs, n) ==
    IF refs = <<>> THEN <<>>
    ELSE IF Head(refs) \in Keys(tools) /\ Lookup(tools, Head(refs)).type = "local"
            /\ Lookup(tools, Head(refs)).runtime_factory # None
         THEN <<LocalResult(Lookup(tools, Head(refs)).name, n + 1)>>
              \o LocalInstances(Tail(refs), n + 1)
         ELSE LocalInstances(Tail(refs), n)

get_tools_for_agent_remote_first(refs) ==
    LET locals == LocalInstances(SelectSeq2(refs, FALSE), made)
        mcp_configs == SelectSeq2(refs, TRUE)
        combined == IF mcp_configs = <<>> THEN <<>> ELSE get_combined_mcp_runtime(mcp_configs)
    IN  /\ SelectSeq2(refs, FALSE) # <<>> => lock = 0
        /\ Objects + Len(locals) + Len(combined) <= MaxObjects
        /\ made' = made + Len(locals)
        /\ handles' = handles \o combined
        /\ agent_out' = [refs |-> refs,
                          out |-> [i \in DOMAIN combined |-> HandleResult(Len(handles) + i)]
                                  \o locals]
        /\ UNCHANGED <<tools, mcp_runtime_cache, lock, clears, rt>>
        /\ UNCHANGED <<managerVars, routeVars>>

\* get_tools_for_agent, as one step: it takes the lock once per local reference,
\* so it runs when the lock is free, and nothing in it suspends once it runs
get_tools_for_agent(refs) ==
    LET locals == LocalInstances(SelectSeq2(refs, FALSE), made)
        mcp_configs == SelectSeq2(refs, TRUE)
        combined == IF mcp_configs = <<>> THEN <<>> ELSE get_combined_mcp_runtime(mcp_configs)
    IN  /\ SelectSeq2(refs, FALSE) # <<>> => lock = 0
        /\ Objects + Len(locals) + Len(combined) <= MaxObjects
        /\ made' = made + Len(locals)
        /\ handles' = handles \o combined
        /\ agent_out' = [refs |-> refs,
                          out |-> locals \o [i \in DOMAIN combined |->
                                                HandleResult(Len(handles) + i)]]
        /\ UNCHANGED <<tools, mcp_runtime_cache, lock, clears, rt>>
        /\ UNCHANGED <<managerVars, routeVars>>

clear_mcp_cache_keeps ==
    /\ clears < MaxClears
    /\ clears' = clears + 1
    /\ UNCHANGED <<tools, mcp_runtime_cache, lock, handles, made, rt, agent_out>>
    /\ UNCHANGED <<managerVars, routeVars>>

clear_mcp_cache_all ==
    /\ clears < MaxClears
    /\ clears' = clears + 1
    /\ mcp_runtime_cache' = {}
    /\ tools' = <<>>
    /\ UNCHANGED <<lock, handles, made, rt, agent_out>>
    /\ UNCHANGED <<managerVars, routeVars>>

\* clear_mcp_cache
clear_mcp_cache ==
    /\ clears < MaxClears
    /\ clears' = clears + 1
    /\ mcp_runtime_cache' = {}
    /\ UNCHANGED <<tools, lock, handles, made, rt, agent_out>>
    /\ UNCHANGED <<managerVars, routeVars>>

\* configurations a server is registered with again: another launch command
\* and another value of its token
UpdatedConfigs ==
    {Dict("python a_server.py --port 9", {<<"TOKEN", "rotated">>}, "stdio", None),
     Dict(CommandOf["A"], EnvOf["A"], "stdio", None)}

\* register_mcp_server_tools called for a server that is registered already;
\* it is synchronous and takes no lock, and runs between the steps of the event
\* loop, so never inside the body get_tool_runtime runs under the lock
ReregisterServer(server, cfg) ==
    /\ lock = 0
    /\ ServerEntries(tools, Text(server)) # {}
    /\ tools' = register_mcp_server_tools(tools, server, Discovered[server], cfg)
    /\ UNCHANGED <<mcp_runtime_cache, lock, handles, made, clears, rt, agent_out>>
    /\ UNCHANGED <<managerVars, routeVars>>

----------------------------------------------------------------------------
(* MCPServerManager *)

\* The shapes a server's entry in mcp_config.yaml can have, as far as
\* initialize_server tells them apart:
\*   stdio    type stdio, a command, string arguments
\*   nocmd    type stdio, neither command nor args: _build_command returns None
\*   badargs  type stdio, an argument that is no string: _build_command raises
\*   other    a type that is not stdio
\*   null     no mapping at all: server_config.get raises
Kinds == {"stdio", "nocmd", "badargs", "other", "null"}

\* runtime_config of initialize_server
RuntimeConfig(server) ==
    Dict(IF config[server] = "nocmd" THEN None ELSE CommandOf[server],
         EnvOf[server], "stdio", None)

RegisterDiscovered_tools_only(cat, server, tls) ==
    RegisterEach(cat, server, tls, RuntimeConfig(server))

\* initialize_server, once discovery has returned `tls`: the catalog afterwards
RegisterDiscovered(cat, server, tls) ==
    IF tls # <<>>
    THEN register_mcp_server_tools(cat, server, tls, RuntimeConfig(server))
    ELSE register_mcp_tool(cat, None, server, RuntimeConfig(server))

\* direct callers of initialize_server (startup.initialize_mcp_servers(servers))
DirectCallers == {"d1"}

\* every server name: the configured ones and one that is not
ServerNames == Servers \cup {"Z"}

\* the server names direct callers pass: B, whose entry has any shape, and Z
DirectNames == {"B", "Z"}

\* An initialize_server call: the one gather runs for server s is <<"batch", s>>.
TaskIds == ({"batch"} \X Servers) \cup ({"direct"} \X DirectCallers)

\* pc: where the call is.  probe: how its discovery probe ended ("none": it made
\* none).  ret: "true", "false", or "raised" when the call ended by an exception.
\* memo: it returned the memoized status.  registered: it wrote to the catalog.
\* seen: the booleans that calls for this server had returned when it began.
\* conn: the probe's connection ("none": never opened).  raised, found: whether
\* discover_server_tools raised, and the list it returned.
IdleTask == [pc |-> "idle", server |-> None, probe |-> "none", ret |-> "none",
             memo |-> FALSE, registered |-> FALSE, seen |-> {},
             conn |-> "none", raised |-> FALSE, found |-> <<>>]

Bool(b) == IF b THEN "true" ELSE "false"

\* the call of task k ends and returns (or raises) `ret`
Finish(k, server, ret, probe, memo, registered, seen) ==
    /\ task' = [task EXCEPT ![k] = [IdleTask EXCEPT
                                    !.pc = "done", !.server = server, !.probe = probe,
                                    !.ret = ret, !.memo = memo,
                                    !.registered = registered, !.seen = seen]]
    /\ returned' = [returned EXCEPT ![server] =
                        IF ret \in {"true", "false"} THEN @ \cup {ret} ELSE @]

StatusAfterDiscovery_tools(tls) == tls # <<>>

\* self.initialized_servers[server_name] = True, whatever discovery returned
StatusAfterDiscovery(tls) == TRUE

MemoHit_never(server) == FALSE

\* server_name in self.initialized_servers
MemoHit(server) == server \in DOMAIN initialized_servers

ServerType_stdio(kind) == "stdio"

\* server_config.get("type") of an entry that is a mapping
ServerType(kind) == IF kind = "other" THEN "sse" ELSE "stdio"

\* initialize_server from its first line to its first suspension (the discovery
\* probe's connection) or to its return
BeginInitialize(k, server) ==
    LET seen == returned[server]
        kind == config[server]
    IN  IF MemoHit(server)
        THEN /\ Finish(k, server, Bool(initialized_servers[server]), "none", TRUE, FALSE, seen)
             /\ UNCHANGED <<tools, initialized_servers>>
        ELSE IF server \notin DOMAIN config
        THEN /\ Finish(k, server, "false", "none", FALSE, FALSE, seen)
             /\ UNCHANGED <<tools, initialized_servers>>
        ELSE IF kind = "null"
        THEN /\ Finish(k, server, "raised", "none", FALSE, FALSE, seen)
             /\ UNCHANGED <<tools, initialized_servers>>
        ELSE IF ServerType(kind) # "stdio"
        THEN /\ Finish(k, server, "false", "none", FALSE, FALSE, seen)
             /\ UNCHANGED <<tools, initialized_servers>>
        ELSE IF kind = "badargs"
        THEN /\ Finish(k, server, "false", "none", FALSE, FALSE, seen)
             /\ initialized_servers' = (server :> FALSE) @@ initialized_servers
             /\ UNCHANGED tools
        ELSE IF kind = "nocmd"
        THEN /\ Finish(k, server, Bool(StatusAfterDiscovery(<<>>)), "none", FALSE, TRUE, seen)
             /\ tools' = RegisterDiscovered(tools, server, <<>>)
             /\ initialized_servers' = (server :> StatusAfterDiscovery(<<>>)) @@ initialized_servers
        ELSE /\ task' = [task EXCEPT ![k] = [IdleTask EXCEPT !.pc = "probing",
                                                         !.server = server, !.seen = seen]]
             /\ UNCHANGED <<tools, initialized_servers, returned>>

\* a direct caller awaits initialize_server(server)
initialize_server(d, server) ==
    /\ task[<<"direct", d>>].pc = "idle"
    /\ BeginInitialize(<<"direct", d>>, server)
    /\ UNCHANGED <<request, call, config, batch>>
    /\ UNCHANGED <<mcp_runtime_cache, lock, handles, made, clears, rt, agent_out>>

RunTask_sequential(s) ==
    /\ task[<<"batch", s>>].pc = "ready"
    /\ \A r \in Servers : task[<<"batch", r>>].pc \notin {"probing", "listing", "hung"}
    /\ BeginInitialize(<<"batch", s>>, s)
    /\ UNCHANGED <<request, call, config, batch>>
    /\ UNCHANGED <<mcp_runtime_cache, lock, handles, made, clears, rt, agent_out>>

\* the event loop starts the task gather made for server s
RunTask(s) ==
    /\ task[<<"batch", s>>].pc = "ready"
    /\ BeginInitialize(<<"batch", s>>, s)
    /\ UNCHANGED <<request, call, config, batch>>
    /\ UNCHANGED <<mcp_runtime_cache, lock, handles, made, clears, rt, agent_out>>

\* MCPTools.__aenter__ of the probe returns: the connection is open, and
\* discover_server_tools awaits mcp.list_tools()
ProbeConnects(k) ==
    /\ task[k].pc = "probing"
    /\ task' = [task EXCEPT ![k].pc = "listing", ![k].conn = "open"]
    /\ UNCHANGED <<request, call, config, initialized_servers, batch, returned>>
    /\ UNCHANGED registryVars

\* the server never answers the connection or the list_tools request:
\* discover_server_tools sets no timeout, and its await never completes
ProbeHangs(k) ==
    /\ task[k].pc \in {"probing", "listing"}
    /\ task' = [task EXCEPT ![k].pc = "hung"]
    /\ UNCHANGED <<request, call, config, initialized_servers, batch, returned>>
    /\ UNCHANGED registryVars

ConnAfterExit_leak(conn) == conn

\* leaving `async with MCPTools(...) as mcp:`, by return or by exception:
\* __aexit__ closes the connection that __aenter__ opened
ConnAfterExit(conn) == IF conn = "open" THEN "closed" ELSE conn

discover_server_tools_raises(server, outcome) ==
    [raised |-> outcome = "fail",
     tools |-> IF outcome = "ok" THEN Discovered[server] ELSE <<>>]

\* discover_server_tools, from how its probe ended: the names list_tools gave
\* ("ok"), [] when it gave none ("empty"), and [] from `except Exception` when
\* the connection or list_tools raised ("fail")
discover_server_tools(server, outcome) ==
    [raised |-> FALSE,
     tools |-> IF outcome = "ok" THEN Discovered[server] ELSE <<>>]

\* discover_server_tools returns to initialize_server: the connection failed
\* ("fail" before it was open), or list_tools listed the server's tools ("ok"),
\* listed none ("empty") or failed ("fail"); initialize_server registers and
\* records the status, or records False when discover_server_tools raised
DiscoveryReturns(k, outcome) ==
    LET server == task[k].server
        d == discover_server_tools(server, outcome)
        ends(ret, registered) ==
            /\ task' = [task EXCEPT ![k] = [IdleTask EXCEPT
                            !.pc = "done", !.server = server, !.probe = outcome,
                            !.ret = ret, !.registered = registered,
                            !.seen = task[k].seen,
                            !.conn = ConnAfterExit(task[k].conn),
                            !.raised = d.raised, !.found = d.tools]]
            /\ returned' = [returned EXCEPT ![server] = @ \cup {ret}]
    IN  /\ \/ task[k].pc = "probing" /\ outcome = "fail"
           \/ task[k].pc = "listing"
        /\ IF d.raised
           THEN /\ initialized_servers' = (server :> FALSE) @@ initialized_servers
                /\ ends("false", FALSE)
                /\ UNCHANGED tools
           ELSE /\ tools' = RegisterDiscovered(tools, server, d.tools)
                /\ initialized_servers' =
                       (server :> StatusAfterDiscovery(d.tools)) @@ initialized_servers
                /\ ends(Bool(StatusAfterDiscovery(d.tools)), TRUE)
        /\ UNCHANGED <<request, call, config, batch>>
        /\ UNCHANGED <<mcp_runtime_cache, lock, handles, made, clears, rt, agent_out>>

\* the direct caller has its result
DirectReturns(d) ==
    /\ task[<<"direct", d>>].pc = "done"
    /\ task' = [task EXCEPT ![<<"direct", d>>] = IdleTask]
    /\ UNCHANGED <<request, call, config, initialized_servers, batch, returned>>
    /\ UNCHANGED registryVars

IdleBatch == [pc |-> "idle", origin |-> None, results |-> {}]

\* initialize_all_servers up to `await asyncio.gather(...)`: one task per
\* configured server
GatherTasks == [k \in TaskIds |-> IF k[1] = "batch" /\ k[2] \in DOMAIN config
                                  THEN [IdleTask EXCEPT !.pc = "ready", !.server = k[2]]
                                  ELSE task[k]]

ResultOf_raw(ret) == ret

\* results[server_name] = False if isinstance(status, Exception) else status
ResultOf(ret) == IF ret = "raised" THEN "false" ELSE ret

\* gather has every status: initialize_all_servers builds its result and returns.
\* results is the returned dict, as a set of <<server, status>>.
initialize_all_servers_returns ==
    /\ batch.pc = "running"
    /\ \A s \in DOMAIN config : task[<<"batch", s>>].pc = "done"
    /\ batch' = [batch EXCEPT !.pc = "done",
                     !.results = {<<s, ResultOf(task[<<"batch", s>>].ret)>> : s \in DOMAIN config}]
    /\ UNCHANGED <<request, call, config, initialized_servers, task, returned>>
    /\ UNCHANGED registryVars

\* lifespan: initialize_tools_system() at application start
startup ==
    /\ batch.pc = "idle"
    /\ batch.origin = None
    /\ tools' = register_local_tools(tools)
    /\ task' = GatherTasks
    /\ batch' = [pc |-> "running", origin |-> "startup", results |-> {}]
    /\ UNCHANGED <<request, call, config, initialized_servers, returned>>
    /\ UNCHANGED <<mcp_runtime_cache, lock, handles, made, clears, rt, agent_out>>

\* lifespan's startup is over (the application serves requests from here on), or
\* reload_tools has its result
BatchDone ==
    /\ batch.pc = "done"
    /\ batch' = [batch EXCEPT !.pc = "idle", !.results = {}]
    /\ task' = [k \in TaskIds |-> IF k[1] = "batch" THEN IdleTask ELSE task[k]]
    /\ UNCHANGED <<request, call, config, initialized_servers, returned>>
    /\ UNCHANGED registryVars

\* POST /reload-tools: clear_mcp_cache(), then initialize_tools_system()
reload_tools ==
    /\ batch.pc = "idle"
    /\ batch.origin # None
    /\ clears < MaxClears
    /\ clears' = clears + 1
    /\ mcp_runtime_cache' = {}
    /\ tools' = register_local_tools(tools)
    /\ task' = GatherTasks
    /\ batch' = [pc |-> "running", origin |-> "reload", results |-> {}]
    /\ UNCHANGED <<request, call, config, initialized_servers, returned>>
    /\ UNCHANGED <<lock, handles, made, rt, agent_out>>

----------------------------------------------------------------------------
(* Status accessors: list_tools, is_server_initialized, get_tool_summary *)

\* the values list_tools is called with: a member of the enum ToolType, a plain
\* string, or nothing
ToolTypeMember(v) == [t |-> "ToolType", v |-> v]
StrArg(v) == [t |-> "str", v |-> v]
NoArg == [t |-> "None", v |-> ""]

\* metadata.type == tool_type: metadata.type is a member of ToolType, a plain
\* Enum, whose members equal only themselves and never a string
TypeEquals(type, tool_type) == tool_type.t = "ToolType" /\ tool_type.v = type

\* list_tools: the keys in catalog order; "if tool_type" is true of every enum
\* member and of every non-empty string
list_tools(cat, tool_type) ==
    LET kept == IF tool_type.t # "None" /\ tool_type.v # ""
                THEN SelectSeq(cat, LAMBDA e : TypeEquals(e.type, tool_type))
                ELSE cat
    IN  [i \in DOMAIN kept |-> kept[i].key]

\* self.initialized_servers.get(server_name, False)
is_server_initialized(server_name) ==
    IF server_name \in DOMAIN initialized_servers
    THEN initialized_servers[server_name] ELSE FALSE

\* the dictionary initialize_tools_system returns once initialize_mcp_servers
\* has returned mcp_results
initialize_tools_system_returns(mcp_results) ==
    [local_tools |-> list_tools(tools, StrArg("local")),
     mcp_servers |-> mcp_results,
     total_tools |-> Len(list_tools(tools, NoArg))]

\* get_tool_summary (the lists of servers as sets)
get_tool_summary ==
    [local_tools |-> list_tools(tools, ToolTypeMember("local")),
     mcp_tools |-> list_tools(tools, ToolTypeMember("mcp")),
     initialized_servers |-> DOMAIN initialized_servers,
     configured_servers |-> DOMAIN config,
     total_tools |-> Len(list_tools(tools, NoArg))]

----------------------------------------------------------------------------
(* MCPServerManager: the configuration helpers *)

\* Values of the YAML configuration.  A string is a sequence of tokens, "${" and
\* "}" being tokens: "${TOKEN}" is <<"${", "TOKEN", "}">>.  A dict is a sequence
\* of <<key, value>>; Other stands for a value that is no str, dict or list; Absent
\* for a key the dict does not have.
Str(s) == [t |-> "str", v |-> s]
List(l) == [t |-> "list", v |-> l]
Map(d) == [t |-> "dict", v |-> d]
Other(n) == [t |-> "other", v |-> <<n>>]
Absent == [t |-> "absent", v |-> <<>>]
NoneValue == [t |-> "None", v |-> <<>>]
Raised(e) == [t |-> "raised", v |-> <<e>>]

\* os.environ
Environ == {<<"TOKEN", <<"secret">>>>, <<"HOME", <<"/root">>>>}

\* os.getenv(name, "")
Getenv(name) ==
    IF \E p \in Environ : <<p[1]>> = name
    THEN (CHOOSE p \in Environ : <<p[1]>> = name)[2]
    ELSE <<>>

RECURSIVE resolve_env_vars(_)
\* _resolve_env_vars
resolve_env_vars(value) ==
    IF /\ value.t = "str"
       /\ Len(value.v) >= 2
       /\ value.v[1] = "${"
       /\ value.v[Len(value.v)] = "}"
    THEN Str(Getenv(SubSeq(value.v, 2, Len(value.v) - 1)))
    ELSE IF value.t = "dict"
    THEN Map([i \in DOMAIN value.v |-> <<value.v[i][1], resolve_env_vars(value.v[i][2])>>])
    ELSE IF value.t = "list"
    THEN List([i \in DOMAIN value.v |-> resolve_env_vars(value.v[i])])
    ELSE value

RECURSIVE Join(_)
\* " ".join(parts)
Join(parts) ==
    IF parts = <<>> THEN <<>>
    ELSE IF Len(parts) = 1 THEN parts[1].v
    ELSE parts[1].v \o <<" ">> \o Join(Tail(parts))

\* _build_command of a server_config with the given "command" and "args" (Absent
\* when it has no such key)
build_command(command, args) ==
    LET c == resolve_env_vars(command)
        a == resolve_env_vars(args)
        command_parts == (IF c = Absent THEN <<>> ELSE <<c>>)
                         \o (IF a = Absent THEN <<>> ELSE a.v)
    IN  IF command_parts = <<>> THEN NoneValue
        ELSE IF \E i \in DOMAIN command_parts : command_parts[i].t # "str"
        THEN Raised("TypeError")
        ELSE Str(Join(command_parts))

\* the strings of the configuration values
ConfigStrings ==
    {<<>>, <<"npx">>, <<"-y">>, <<"${", "TOKEN", "}">>, <<"${", "UNSET", "}">>,
     <<"Bearer", " ", "${", "TOKEN", "}">>,
     <<"${", "HOME", "}", "/", "${", "TOKEN", "}">>}

\* scalars, and lists and dicts of scalars
Scalars == {Str(x) : x \in ConfigStrings} \cup {Other(8080)}
ConfigValues ==
    Scalars
    \cup {List(<<x>>) : x \in Scalars}
    \cup {List(<<x, y>>) : x, y \in Scalars}
    \cup {Map(<<<<"env", Map(<<<<"KEY", x>>>>)>>, <<"args", List(<<y>>)>>>>) : x, y \in Scalars}

\* the "command" and "args" of server configurations
CommandValues == {Absent, Str(<<"npx">>), Str(<<"${", "HOME", "}">>), Str(<<>>)}
ArgsValues ==
    {Absent, List(<<>>)}
    \cup {List(<<x>>) : x \in Scalars}
    \cup {List(<<Str(<<"-y">>), x>>) : x \in Scalars}

NoCall == [fn |-> "none", arg |-> <<>>, out |-> NoneValue]

\* a call of _resolve_env_vars(value)
ResolveEnvVars(value) ==
    /\ call' = [fn |-> "_resolve_env_vars", arg |-> value, out |-> resolve_env_vars(value)]
    /\ UNCHANGED <<request, config, initialized_servers, task, batch, returned>>
    /\ UNCHANGED registryVars

\* a call of _build_command({"command": command, "args": args})
BuildCommand(command, args) ==
    /\ call' = [fn |-> "_build_command", arg |-> <<command, args>>,
                out |-> build_command(command, args)]
    /\ UNCHANGED <<request, config, initialized_servers, task, batch, returned>>
    /\ UNCHANGED registryVars

----------------------------------------------------------------------------
(* agents/tool_loader.py: DynamicToolLoader *)

RECURSIVE Strip(_)
\* str.strip(): the text without the blanks at its ends
Strip(text) ==
    IF text # <<>> /\ Head(text) = " " THEN Strip(Tail(text))
    ELSE IF text # <<>> /\ text[Len(text)] = " " THEN Strip(SubSeq(text, 1, Len(text) - 1))
    ELSE text

\* str.index(token): the position of its first occurrence
IndexOf(text, token) ==
    CHOOSE k \in DOMAIN text : text[k] = token /\ \A j \in 1 .. (k - 1) : text[j] # token

\* text[from:to] of Python, with positions counted from 1: from .. to - 1
Slice(text, from, to) ==
    IF from >= to THEN <<>> ELSE SubSeq(text, from, to - 1)

\* result["servers"][server_name] = {"tools": tools}
ServersSet(servers, server_name, tls) ==
    IF \E i \in DOMAIN servers : servers[i].server = server_name
    THEN [i \in DOMAIN servers |->
             IF servers[i].server = server_name
             THEN [server |-> server_name, tools |-> tls] ELSE servers[i]]
    ELSE Append(servers, [server |-> server_name, tools |-> tls])

\* one round of parse_mcp_config's loop.  tools: <<>> stands for None.  A
\* server of the configuration is a stdio server with a command ("stdio") or
\* one the loop passes over: of another type, or without a command.
ParseOne(acc, cfg) ==
    IF ~StartsWithMcp(cfg) THEN acc
    ELSE LET rest == SubSeq(cfg, 3, Len(cfg))
             bracket == "[" \in Range(rest) /\ "]" \in Range(rest)
             server_name == IF bracket THEN SubSeq(rest, 1, IndexOf(rest, "[") - 1)
                            ELSE rest
             tools_str == Slice(rest, IndexOf(rest, "[") + 1, IndexOf(rest, "]"))
             tls == IF bracket
                    THEN [i \in DOMAIN SplitOn(tools_str, ",") |->
                             Strip(SplitOn(tools_str, ",")[i])]
                    ELSE <<>>
             known == {x \in DOMAIN config : Text(x) = server_name}
             withTools == [acc EXCEPT !.all_include_tools = @ \o tls]
         IN  IF known # {} /\ \A x \in known : config[x] = "stdio"
             THEN LET x == CHOOSE y \in known : TRUE
                  IN  [withTools EXCEPT
                          !.commands = Append(@, CommandOf[x]),
                          !.servers = ServersSet(@, server_name, tls),
                          !.env = DictUpdate(@, EnvOf[x])]
             ELSE withTools

RECURSIVE ParseAll(_, _)
\* for config in mcp_configs: ...
ParseAll(acc, mcp_configs) ==
    IF mcp_configs = <<>> THEN acc
    ELSE ParseAll(ParseOne(acc, Head(mcp_configs)), Tail(mcp_configs))

\* parse_mcp_config: include_tools <<>> stands for None
parse_mcp_config(mcp_configs) ==
    LET acc == ParseAll([commands |-> <<>>, env |-> {}, servers |-> <<>>,
                         all_include_tools |-> <<>>], mcp_configs)
    IN  [commands |-> acc.commands, env |-> acc.env,
         include_tools |-> acc.all_include_tools, servers |-> acc.servers]

\* get_mcp_tools: <<>> for None, else <<the handle it constructs>>
get_mcp_tools(mcp_configs) ==
    LET parsed == parse_mcp_config(mcp_configs)
        names == [i \in DOMAIN parsed.servers |-> parsed.servers[i].server]
    IN  IF mcp_configs = <<>> \/ parsed.commands = <<>> THEN <<>>
        ELSE IF Len(parsed.commands) = 1
        THEN <<Handle("MCPTools", <<parsed.commands[1]>>, parsed.env,
                      parsed.include_tools, "get_mcp_tools", mcp_configs, names)>>
        ELSE <<Handle("MultiMCPTools", parsed.commands, parsed.env,
                      parsed.include_tools, "get_mcp_tools", mcp_configs, names)>>

\* the lists of remote references process_tools_list hands to get_mcp_tools: one
\* server, two servers, one server twice (whole, and with one tool each time), a
\* bracketed subset with and without a blank, a server of another type, a server
\* that is not configured
LoaderRequests ==
    {<<Mcp("A")>>,
     <<Mcp("A"), Mcp("B")>>,
     <<Mcp("A"), Mcp("A")>>,
     <<<<"mcp", ":", "A", "[", "t1", "]">>, <<"mcp", ":", "A", "[", "t2", "]">>>>,
     <<McpBracket2("A", "t1", "t2")>>,
     <<<<"mcp", ":", "B", "[", "t1", ",", " ", "t2", "]">>>>,
     <<Mcp("C"), Mcp("B")>>,
     <<Mcp("Z")>>}

\* a call of parse_mcp_config
ParseMcpConfig(mcp_configs) ==
    /\ call' = [fn |-> "parse_mcp_config", arg |-> mcp_configs,
                out |-> [t |-> "dict", v |-> parse_mcp_config(mcp_configs)]]
    /\ UNCHANGED <<request, config, initialized_servers, task, batch, returned>>
    /\ UNCHANGED registryVars

\* a call of get_mcp_tools
GetMcpTools(mcp_configs) ==
    /\ Objects + Len(get_mcp_tools(mcp_configs)) <= MaxObjects
    /\ handles' = handles \o get_mcp_tools(mcp_configs)
    /\ call' = [fn |-> "get_mcp_tools", arg |-> mcp_configs,
                out |-> [t |-> "dict", v |-> parse_mcp_config(mcp_configs)]]
    /\ UNCHANGED <<request, config, initialized_servers, task, batch, returned>>
    /\ UNCHANGED <<tools, mcp_runtime_cache, lock, made, clears, rt, agent_out>>

----------------------------------------------------------------------------
(* api/routes/agents_v2.py: run_agent *)

\* the clients that post to /run
Clients == {"r1", "r2"}

\* the configured agents and their tool lists: a remote server, a local tool,
\* and a remote server nothing is registered for (no handle is built for it)
AgentConfigs ==
    [remote |-> <<Mcp("A")>>, search |-> <<<<"DuckDuckGoTools">>>>, stale |-> <<Mcp("Z")>>]

\* the agent_id values of the requests
AgentIds == DOMAIN AgentConfigs \cup {"missing"}

\* what a run of the agent produces, in order: a capability invocation, then a
\* chunk of the response
RunEvents == <<"invocation", "chunk">>

IdleRequest ==
    [pc |-> "idle", stream |-> FALSE, handle |-> 0, scope |-> "none",
     out |-> <<>>, status |-> None]

\* run_agent up to the entry of the handle's scope: create_agent_with_context
\* resolves the local references through get_tool_runtime and builds the handle
\* of the remote ones; an agent_id that is not configured raises ValueError,
\* which becomes status 404
RunAgentCreates(c, agent_id, stream) ==
    /\ request[c].pc = "idle"
    /\ IF agent_id \notin DOMAIN AgentConfigs
       THEN /\ request' = [request EXCEPT ![c] = [@ EXCEPT !.pc = "done", !.stream = stream,
                                                           !.status = "404"]]
            /\ UNCHANGED <<made, handles>>
       ELSE LET refs == AgentConfigs[agent_id]
                locals == LocalInstances(SelectSeq2(refs, FALSE), made)
                mcp_refs == SelectSeq2(refs, TRUE)
                mcp_runtime == IF mcp_refs = <<>> THEN <<>>
                               ELSE get_combined_mcp_runtime(mcp_refs)
            IN  /\ SelectSeq2(refs, FALSE) # <<>> => lock = 0
                /\ Objects + Len(locals) + Len(mcp_runtime) <= MaxObjects
                /\ made' = made + Len(locals)
                /\ handles' = handles \o mcp_runtime
                /\ request' = [request EXCEPT ![c] =
                       [@ EXCEPT !.stream = stream,
                                 !.handle = IF mcp_runtime = <<>> THEN 0
                                            ELSE Len(handles) + 1,
                                 !.pc = IF mcp_runtime # <<>> THEN "entering"
                                        ELSE IF stream THEN "streaming" ELSE "running"]]
    /\ UNCHANGED <<tools, mcp_runtime_cache, lock, clears, rt, agent_out>>
    /\ UNCHANGED managerVars

\* "async with mcp_context as active_mcp" is entered; a streaming request then
\* reaches "return StreamingResponse(generate(), ...)" without running the
\* generator, a non-streaming one awaits agent.arun
EnterContext(c) ==
    /\ request[c].pc = "entering"
    /\ request' = [request EXCEPT ![c] =
           [@ EXCEPT !.scope = "open",
                     !.pc = IF request[c].stream THEN "returning" ELSE "running"]]
    /\ UNCHANGED <<registryVars, managerVars>>

\* the agent, inside agent.arun or inside the generator the response iterates,
\* produces its next event; the event is recorded with the scope it met
AgentProduces(c) ==
    /\ request[c].pc \in {"running", "streaming"}
    /\ Len(request[c].out) < Len(RunEvents)
    /\ request' = [request EXCEPT ![c] =
           [@ EXCEPT !.out = Append(@, [event |-> RunEvents[Len(@) + 1],
                                        scope |-> request[c].scope])]]
    /\ UNCHANGED <<registryVars, managerVars>>

\* agent.arun returns (ok) or raises, or the generator is exhausted: the handler
\* leaves the scope if it is in one, and the request ends
RunEnds(c, ok) ==
    /\ request[c].pc \in {"running", "streaming"}
    /\ ok => Len(request[c].out) = Len(RunEvents)
    /\ request[c].pc = "streaming" => ok
    /\ request' = [request EXCEPT ![c] =
           [@ EXCEPT !.status = IF ok THEN "200" ELSE "500",
                     !.pc = IF request[c].scope = "open" THEN "exiting" ELSE "done"]]
    /\ UNCHANGED <<registryVars, managerVars>>

\* the handler leaves the "async with" block: by the return of the streaming
\* response, by the return of the AgentResponse, or by an exception
ExitContext(c) ==
    /\ request[c].pc \in {"returning", "exiting"}
    /\ request' = [request EXCEPT ![c] =
           [@ EXCEPT !.scope = "exited",
                     !.pc = IF request[c].pc = "returning" THEN "streaming" ELSE "done"]]
    /\ UNCHANGED <<registryVars, managerVars>>

----------------------------------------------------------------------------
(* Specifications *)

\* the configurations the manager is started with: A and C are stdio servers,
\* B's entry has any of the shapes
Configs == {c \in [Servers -> Kinds] : c["A"] = "stdio" /\ c["C"] = "stdio"}

RegistryIdle ==
    /\ mcp_runtime_cache = {}
    /\ lock = 0
    /\ handles = <<>>
    /\ made = 0
    /\ clears = 0
    /\ rt = [t \in Callers |-> IdleCall]
    /\ agent_out = NoAgentCall

\* The process after its modules are loaded: an empty registry, the manager with
\* its configuration read, nothing initialized.
Init ==
    /\ config \in Configs
    /\ tools = <<>>
    /\ RegistryIdle
    /\ initialized_servers = <<>>
    /\ task = [k \in TaskIds |-> IdleTask]
    /\ batch = IdleBatch
    /\ returned = [s \in ServerNames |-> {}]
    /\ call = NoCall
    /\ request = [c \in Clients |-> IdleRequest]

ManagerNext ==
    \/ startup
    \/ reload_tools
    \/ \E s \in Servers : RunTask(s)
    \/ \E k \in TaskIds : ProbeConnects(k)
    \/ \E k \in TaskIds : ProbeHangs(k)
    \/ \E k \in TaskIds, outcome \in {"ok", "empty", "fail"} : DiscoveryReturns(k, outcome)
    \/ initialize_all_servers_returns
    \/ BatchDone
    \/ \E d \in DirectCallers, s \in DirectNames : initialize_server(d, s)
    \/ \E d \in DirectCallers : DirectReturns(d)

\* the steps of the probe of task k
ProbeStep(k) ==
    \/ ProbeConnects(k)
    \/ ProbeHangs(k)
    \/ \E outcome \in {"ok", "empty", "fail"} : DiscoveryReturns(k, outcome)

\* bulk initialization alone: startup and reloads, no direct initialize_server call
BulkNext ==
    \/ startup
    \/ reload_tools
    \/ \E s \in Servers : RunTask(s)
    \/ \E s \in Servers : ProbeStep(<<"batch", s>>)
    \/ initialize_all_servers_returns
    \/ BatchDone

\* The event loop runs every task that is ready; a probe goes on when the server
\* answers or fails, or is hung for good; gather returns once every task is done.
BulkFairness ==
    /\ \A s \in Servers : WF_vars(RunTask(s))
    /\ \A s \in Servers : WF_vars(ProbeStep(<<"batch", s>>))
    /\ WF_vars(initialize_all_servers_returns)

\* the configuration helpers applied to configuration values
HelperNext ==
    \/ \E value \in ConfigValues : ResolveEnvVars(value)
    \/ \E command \in CommandValues, args \in ArgsValues : BuildCommand(command, args)

RegistryNext ==
    \/ \E t \in Callers, ref \in RefInputs : CallRuntime(t, ref)
    \/ \E t \in Callers : get_tool_runtime(t)
    \/ \E t \in Callers : ReturnRuntime(t)
    \/ \E refs \in AgentRequests : get_tools_for_agent(refs)
    \/ clear_mcp_cache

\* get_tool_runtime with references that are no catalog key
ReferenceNext ==
    \/ \E t \in Callers, ref \in SubsetRefInputs : CallRuntime(t, ref)
    \/ \E t \in Callers : get_tool_runtime(t)
    \/ \E t \in Callers : ReturnRuntime(t)
    \/ clear_mcp_cache

\* agents built from their tool lists, next to get_tool_runtime calls
AgentNext ==
    \/ \E refs \in AgentToolLists : get_tools_for_agent(refs)
    \/ \E t \in Callers, ref \in AgentRefInputs : CallRuntime(t, ref)
    \/ \E t \in Callers : get_tool_runtime(t)
    \/ \E t \in Callers : ReturnRuntime(t)
    \/ clear_mcp_cache

Next == ManagerNext \/ RegistryNext

Spec == Init /\ [][Next]_vars

\* The manager from process start: startup, reloads and direct initialize_server
\* calls in any interleaving.
SpecLifecycle == Init /\ [][ManagerNext]_vars

\* Bulk initialization under the event loop's scheduling.
SpecBulkFair == Init /\ [][BulkNext]_vars /\ BulkFairness

\* The manager's configuration helpers, applied to configuration values.
SpecHelpers == Init /\ [][HelperNext]_vars

\* The application once lifespan's startup is over, with servers A and B (and C,
\* when it is a stdio server) initialized: A's and C's probes listed their tools,
\* B's listed them or failed.
InitServing ==
    /\ config = [A |-> "stdio", B |-> "stdio", C |-> "other"]
    /\ \E b \in {"ok"} :
          tools = LET c0 == register_local_tools(<<>>)
                      c1 == RegisterDiscovered(c0, "A", Discovered["A"])
                      c2 == RegisterDiscovered(c1, "B", IF b = "ok" THEN Discovered["B"] ELSE <<>>)
                  IN  IF config["C"] = "stdio"
                      THEN RegisterDiscovered(c2, "C", Discovered["C"]) ELSE c2
    /\ RegistryIdle
    /\ initialized_servers = [s \in {x \in Servers : config[x] = "stdio"} |-> TRUE]
    /\ task = [k \in TaskIds |-> IdleTask]
    /\ batch = [IdleBatch EXCEPT !.origin = "startup"]
    /\ returned = [s \in ServerNames |-> IF s \in Servers /\ config[s] = "stdio"
                                         THEN {"true"} ELSE {}]
    /\ call = NoCall
    /\ request = [c \in Clients |-> IdleRequest]

\* The registry serving requests: resolutions and cache clears in any interleaving.
SpecRegistry == InitServing /\ [][RegistryNext]_vars

\* The registry resolving references that are no catalog key.
SpecReferences == InitServing /\ [][ReferenceNext]_vars

\* The registry building the tool lists of agents.
SpecAgents == InitServing /\ [][AgentNext]_vars

\* get_tool_runtime next to registrations that replace a server's configuration
ReregisterNext ==
    \/ \E t \in Callers, ref \in {Mcp("A"), McpTool("A", "t1")} : CallRuntime(t, ref)
    \/ \E t \in Callers : get_tool_runtime(t)
    \/ \E t \in Callers : ReturnRuntime(t)
    \/ \E cfg \in UpdatedConfigs : ReregisterServer("A", cfg)
    \/ clear_mcp_cache

\* The registry serving requests while a server is registered again.
SpecReregister == InitServing /\ [][ReregisterNext]_vars

\* concurrent get_tool_runtime, get_tools_for_agent and clear_mcp_cache calls,
\* with callers that wait for the lock and bodies that raise
LockNext ==
    \/ \E t \in Callers, ref \in {Mcp("A"), <<"DuckDuckGoTools">>} : CallRuntime(t, ref)
    \/ \E t \in Callers, ref \in {Mcp("A"), <<"DuckDuckGoTools">>} : AwaitLock(t, ref)
    \/ \E t \in Callers : AcquireLock(t)
    \/ \E t \in Callers : get_tool_runtime(t)
    \/ \E t \in Callers : RuntimeRaises(t)
    \/ \E t \in Callers : ReturnRuntime(t)
    \/ \E refs \in {<<<<"DuckDuckGoTools">>, Mcp("A")>>} : get_tools_for_agent(refs)
    \/ clear_mcp_cache

\* The body under the lock does not suspend, so the holder's step is taken; the
\* lock of asyncio hands itself to its waiters in the order they arrived, so a
\* waiter that finds the lock free again and again is served.
LockFairness ==
    /\ \A t \in Callers : WF_vars(get_tool_runtime(t) \/ RuntimeRaises(t))
    /\ \A t \in Callers : SF_vars(AcquireLock(t))

\* The registry serving concurrent requests, fairly scheduled.
SpecLockFair == InitServing /\ [][LockNext]_vars /\ LockFairness

LoaderNext ==
    \/ \E mcp_configs \in LoaderRequests : ParseMcpConfig(mcp_configs)
    \/ \E mcp_configs \in LoaderRequests : GetMcpTools(mcp_configs)

\* The tool loader building handles from the remote references of agents.
SpecLoader == InitServing /\ [][LoaderNext]_vars

RunNext ==
    \/ \E c \in Clients, agent_id \in AgentIds, stream \in BOOLEAN :
          RunAgentCreates(c, agent_id, stream)
    \/ \E c \in Clients : EnterContext(c)
    \/ \E c \in Clients : AgentProduces(c)
    \/ \E c \in Clients, ok \in BOOLEAN : RunEnds(c, ok)
    \/ \E c \in Clients : ExitContext(c)

\* The application serving requests to run agents.
SpecRun == InitServing /\ [][RunNext]_vars

----------------------------------------------------------------------------
(* Claims about the registry, under SpecRegistry *)

DoneCalls == {t \in Callers : rt[t].pc = "done"}

\* the handles get_tool_runtime built for reference `ref` after `e` cache clears
BuiltFor(ref, e) ==
    {h \in DOMAIN handles : /\ handles[h].by = "get_tool_runtime"
                            /\ handles[h].key = <<ref>>
                            /\ handles[h].epoch = e}

\* C1: get_tool_runtime calls with the same remote reference, with no cache clear
\* between them, construct exactly one handle, and every caller receives that one.
C1_OneHandlePerReference ==
    /\ \A ref \in RefInputs, e \in 0 .. clears : Cardinality(BuiltFor(ref, e)) <= 1
    /\ \A t \in DoneCalls :
          rt[t].res.kind = "handle" => BuiltFor(rt[t].ref, rt[t].epoch) = {rt[t].res.id}
    /\ \A t, u \in DoneCalls :
          (rt[t].ref = rt[u].ref /\ rt[t].epoch = rt[u].epoch /\ StartsWithMcp(rt[t].ref))
              => rt[t].res = rt[u].res

C1_Witness ==
    \E t, u \in DoneCalls :
        /\ t # u
        /\ rt[t].ref = rt[u].ref
        /\ rt[t].epoch = rt[u].epoch
        /\ rt[t].res.kind = "handle"
        /\ rt[u].res = rt[t].res

\* C2: requests that denote the same provider set and capability filters, with no
\* cache clear between them, share one handle: no two handles are constructed for
\* the same providers and filters.
C2_OneHandlePerProviderSet ==
    \A i, j \in DOMAIN handles :
        (/\ handles[i].epoch = handles[j].epoch
         /\ handles[i].servers = handles[j].servers
         /\ handles[i].include_tools = handles[j].include_tools) => i = j

\* C3: a get_tool_runtime call made after a cache clear, for a reference that had
\* a handle before the clear, returns a handle constructed after the clear (one
\* such handle is constructed), never the earlier one.
C3_FreshHandleAfterClear ==
    \A t \in DoneCalls :
        (\E e \in 0 .. (rt[t].epoch - 1) : BuiltFor(rt[t].ref, e) # {})
            => /\ rt[t].res.kind = "handle"
               /\ handles[rt[t].res.id].epoch = rt[t].epoch
               /\ Cardinality(BuiltFor(rt[t].ref, rt[t].epoch)) = 1

C3_Witness ==
    \E t \in DoneCalls :
        /\ rt[t].epoch >= 1
        /\ BuiltFor(rt[t].ref, rt[t].epoch - 1) # {}
        /\ rt[t].res.kind = "handle"
        /\ rt[t].res.id \notin BuiltFor(rt[t].ref, rt[t].epoch - 1)

\* C4: a cache clear empties the connection cache and leaves the catalog as it was.
C4_ClearKeepsCatalog ==
    [][clears' # clears => (mcp_runtime_cache' = {} /\ tools' = tools)]_vars

C4_Witness ==
    /\ clears >= 1
    /\ \E h \in DOMAIN handles :
          handles[h].by = "get_tool_runtime" /\ handles[h].epoch = clears - 1
    /\ mcp_runtime_cache = {}
    /\ \E i \in DOMAIN tools : tools[i].type = "mcp"
    /\ \E i \in DOMAIN tools : tools[i].type = "local"

\* C20: a get_tool_runtime call for a local entry calls the entry's factory once
\* and returns the instance it made, which no earlier call returned; it reads and
\* writes neither the connection cache nor the handles.
C20_LocalCallMakesOneInstance ==
    [][\A t \in Callers :
          (/\ rt[t].pc = "locked"
           /\ rt'[t].pc = "done"
           /\ \E i \in DOMAIN tools : tools[i].key = rt[t].ref /\ tools[i].type = "local")
          => /\ made' = made + 1
             /\ rt'[t].res.kind = "local"
             /\ rt'[t].res.id = made'
             /\ <<rt'[t].res.of>> = rt[t].ref
             /\ \A u \in Callers : rt[u].res.kind = "local" => rt[u].res.id # rt'[t].res.id
             /\ mcp_runtime_cache' = mcp_runtime_cache
             /\ handles' = handles
             /\ rt[t].ref \notin CacheRefs]_vars

C20_Witness ==
    \E t, u \in DoneCalls :
        /\ rt[t].ref = <<"DuckDuckGoTools">>
        /\ rt[u].ref = <<"DuckDuckGoTools">>
        /\ rt[t].res.kind = "local" /\ rt[u].res.kind = "local"
        /\ rt[t].res.id # rt[u].res.id
        /\ made = 2


\* C30: the connection cache is changed only by a step of the task that holds the
\* registry lock: the insert by the get_tool_runtime call holding it, and the
\* clear by a holder as well.
C30_CacheChangedUnderLock ==
    [][mcp_runtime_cache' # mcp_runtime_cache =>
          /\ lock # 0
          /\ rt[lock].pc = "locked"
          /\ rt'[lock].pc = "done"]_vars


----------------------------------------------------------------------------
(* Claims about the manager, under SpecLifecycle *)

BatchTask(s) == task[<<"batch", s>>]

\* the status initialize_all_servers returned for server s
Reported(s) == {p[2] : p \in {q \in batch.results : q[1] = s}}

\* C5: a server whose discovery probe failed is reported false by
\* initialize_all_servers.
C5_FailedProbeReportedFalse ==
    batch.pc = "done" =>
        \A s \in Servers : BatchTask(s).probe = "fail" => Reported(s) = {"false"}

\* C6: whatever happens to the other servers, a server whose discovery probe
\* succeeded is reported true by initialize_all_servers, and the catalog holds
\* mcp:{server}:{tool} for every tool it listed, and mcp:{server}.
C6_SucceededProbeRegistered ==
    batch.pc = "done" =>
        \A s \in Servers :
            BatchTask(s).probe = "ok" =>
                /\ Reported(s) = {"true"}
                /\ Mcp(s) \in Keys(tools)
                /\ \A c \in Range(Discovered[s]) : McpTool(s, c) \in Keys(tools)

C6_Witness ==
    /\ batch.pc = "done"
    /\ BatchTask("B").probe = "fail"
    /\ BatchTask("A").probe = "ok"
    /\ BatchTask("C").probe = "ok"

\* C7: initialize_all_servers returns one boolean for each configured server and
\* for no other name, also when a server's initialization raised.
C7_ResultForEveryServer ==
    batch.pc = "done" =>
        /\ {p[1] : p \in batch.results} = DOMAIN config
        /\ \A s \in DOMAIN config :
              Cardinality(Reported(s)) = 1 /\ Reported(s) \subseteq {"true", "false"}

C7_Witness ==
    /\ batch.pc = "done"
    /\ \E s \in Servers : BatchTask(s).ret = "raised" /\ Reported(s) = {"false"}
    /\ \E s \in Servers : BatchTask(s).ret = "true"

\* C8: an initialize_server call that begins after a call for the same server has
\* returned a boolean returns that boolean, makes no discovery probe and writes
\* nothing to the catalog.
C8_LaterCallsMemoized ==
    \A k \in TaskIds :
        task[k].seen # {} =>
            /\ task[k].pc = "done"
            /\ task[k].seen = {task[k].ret}
            /\ task[k].probe = "none"
            /\ ~task[k].registered

C8_Witness ==
    /\ \E k \in TaskIds : task[k].pc = "done" /\ task[k].seen = {"true"} /\ task[k].memo
    /\ \E k \in TaskIds : task[k].pc = "done" /\ task[k].seen = {"false"}

\* C9: a cache clear resets the recorded status of every server to Unknown.
C9_ClearResetsStatus ==
    [][clears' # clears => DOMAIN initialized_servers' = {}]_vars

\* C10: a recorded status never changes to the other value (the code has no reset).
C10_StatusNeverFlips ==
    [][\A s \in DOMAIN initialized_servers :
          /\ s \in DOMAIN initialized_servers'
          /\ initialized_servers'[s] = initialized_servers[s]]_vars

C10_Witness ==
    \E k, l \in TaskIds :
        /\ k # l
        /\ task[k].pc = "done" /\ task[l].pc = "done"
        /\ task[k].server = task[l].server
        /\ task[k].registered /\ task[l].registered
        /\ task[k].probe = "ok" /\ task[l].probe = "fail"

\* C11: at most one discovery probe is started for a server, however the
\* initialize_server calls for it interleave: no two calls for the same server
\* are in their probe at once.
C11_OneProbePerServer ==
    \A k, l \in TaskIds :
        (/\ task[k].pc = "probing"
         /\ task[l].pc = "probing"
         /\ task[k].server = task[l].server) => k = l

\* the arguments register_mcp_server_tools is applied to for server s: tool lists
\* and configurations, the ones initialize_server passes among them
ToolLists(s) == {Discovered[s], <<Discovered[s][1]>>}
ServerConfigs(s) == {RuntimeConfig(s), Dict("docker run server", {}, "stdio", None)}

\* C18: register_mcp_server_tools is idempotent: on every catalog, a second call
\* with the same server, tools and configuration changes nothing; no key is
\* entered twice, and each key it writes holds the configuration of the last call.
C18_RegisterIdempotent ==
    /\ \A i, j \in DOMAIN tools : tools[i].key = tools[j].key => i = j
    /\ \A s \in Servers : \A tls \in ToolLists(s), cfg \in ServerConfigs(s) :
          LET once == register_mcp_server_tools(tools, s, tls, cfg)
              twice == register_mcp_server_tools(once, s, tls, cfg)
          IN  /\ twice = once
              /\ \A i, j \in DOMAIN once : once[i].key = once[j].key => i = j
              /\ Keys(once) = Keys(tools) \cup {Mcp(s)} \cup {McpTool(s, n) : n \in Range(tls)}
              /\ \A key \in {Mcp(s)} \cup {McpTool(s, n) : n \in Range(tls)} :
                    Lookup(once, key).config = cfg

C18_Witness ==
    \E k, l \in TaskIds :
        /\ k # l
        /\ task[k].pc = "done" /\ task[l].pc = "done"
        /\ task[k].server = task[l].server
        /\ task[k].registered /\ task[l].registered
        /\ task[k].probe = "ok" /\ task[l].probe = "ok"
        /\ Cardinality({i \in DOMAIN tools : tools[i].key = Mcp(task[k].server)}) = 1


\* C19: a server whose recorded status is true has its server-wide entry
\* mcp:{server} in the catalog, also when its discovery returned no tools.
C19_InitializedHasServerEntry ==
    \A s \in DOMAIN initialized_servers :
        initialized_servers[s] =>
            \E i \in DOMAIN tools :
                /\ tools[i].key = Mcp(s)
                /\ tools[i].type = "mcp"
                /\ tools[i].server = s

C19_Witness ==
    \E k \in TaskIds :
        /\ task[k].pc = "done"
        /\ task[k].probe = "empty"
        /\ task[k].server \in DOMAIN initialized_servers
        /\ initialized_servers[task[k].server]
        /\ Mcp(task[k].server) \in Keys(tools)
        /\ \A n \in Range(Discovered[task[k].server]) :
              McpTool(task[k].server, n) \notin Keys(tools)


\* C21: when discover_server_tools has returned, the connection its probe opened
\* is closed, whether list_tools answered or failed; a probe whose connection
\* failed leaves none open.
C21_ProbeConnectionClosed ==
    \A k \in TaskIds :
        task[k].pc = "done" =>
            /\ task[k].conn # "open"
            /\ task[k].probe \in {"ok", "empty"} => task[k].conn = "closed"

C21_Witness ==
    \E k, l, m \in TaskIds :
        /\ task[k].pc = "done" /\ task[k].probe = "ok" /\ task[k].conn = "closed"
        /\ task[l].pc = "done" /\ task[l].probe = "fail" /\ task[l].conn = "closed"
        /\ task[m].pc = "done" /\ task[m].probe = "fail" /\ task[m].conn = "none"

\* C22: discover_server_tools never raises: when the connection or list_tools
\* fails it returns the empty list, and initialize_server goes on with it.
C22_DiscoveryNeverRaises ==
    \A k \in TaskIds :
        (task[k].pc = "done" /\ task[k].probe # "none") =>
            /\ ~task[k].raised
            /\ task[k].probe = "fail" => task[k].found = <<>>
            /\ task[k].registered

C22_Witness ==
    \E k, l \in TaskIds :
        /\ task[k].pc = "done" /\ task[k].probe = "fail" /\ task[k].conn = "none"
        /\ task[l].pc = "done" /\ task[l].probe = "fail" /\ task[l].conn = "closed"
        /\ ~task[k].raised /\ ~task[l].raised
        /\ task[k].found = <<>> /\ task[l].found = <<>>


\* C25: for a configured server whose type is not stdio, initialize_server returns
\* false, starts no discovery probe and leaves the catalog unchanged: no call for
\* it ever probes or registers, and the catalog holds no entry of that server.
C25_NonStdioSkipped ==
    \A s \in Servers :
        config[s] = "other" =>
            /\ \A k \in TaskIds :
                  task[k].server = s =>
                      /\ task[k].pc \in {"ready", "done"}
                      /\ task[k].pc = "done" =>
                            /\ task[k].ret = "false"
                            /\ task[k].probe = "none"
                            /\ task[k].conn = "none"
                            /\ ~task[k].registered
            /\ \A i \in DOMAIN tools : tools[i].server # s

C25_Witness ==
    /\ config["B"] = "other"
    /\ BatchTask("B").pc = "done"
    /\ BatchTask("B").ret = "false"
    /\ task[<<"direct", "d1">>].pc = "done"
    /\ task[<<"direct", "d1">>].server = "B"
    /\ task[<<"direct", "d1">>].ret = "false"
    /\ Mcp("A") \in Keys(tools)


\* C35: every remote entry initialize_server writes to the catalog carries a
\* launch command, and a server whose configuration yields no command has no
\* catalog entry and is not recorded as initialized.
C35_RegisteredCommandNonEmpty ==
    /\ \A i \in DOMAIN tools :
           tools[i].type = "mcp" => tools[i].config.command # None
    /\ \A s \in Servers :
           config[s] = "nocmd"
           => /\ ServerEntries(tools, Text(s)) = {}
              /\ ~(s \in DOMAIN initialized_servers /\ initialized_servers[s])

\* C36: the two status accessors agree: a server is listed under
\* initialized_servers by get_tool_summary exactly when is_server_initialized
\* is true of it.
C36_SummaryListsInitialized ==
    \A s \in ServerNames :
        s \in get_tool_summary.initialized_servers <=> is_server_initialized(s)

\* C37: list_tools with a kind filter returns the catalog keys whose entry has
\* that kind, so when startup's initialization has returned, the local_tools
\* field of initialize_tools_system's result is the list of the registered local
\* tools, the one get_tool_summary reports.
C37_LocalToolsListed ==
    (batch.pc = "done" /\ batch.origin = "startup")
    => LET result == initialize_tools_system_returns(batch.results)
           localKeys == SelectSeq([i \in DOMAIN tools |-> tools[i].key],
                                  LAMBDA k : Lookup(tools, k).type = "local")
       IN  /\ get_tool_summary.local_tools = localKeys
           /\ result.local_tools = localKeys
           /\ result.local_tools = get_tool_summary.local_tools

----------------------------------------------------------------------------
(* Claims about agents' tool lists, under SpecAgents *)

\* the positions of a request's references that are local entries of the catalog
KnownLocals(refs) ==
    {i \in DOMAIN refs : /\ ~StartsWithMcp(refs[i])
                         /\ \E j \in DOMAIN tools :
                               tools[j].key = refs[i] /\ tools[j].type = "local"}

\* the positions of a request's remote references
Remotes(refs) == {i \in DOMAIN refs : StartsWithMcp(refs[i])}

\* C12: get_tools_for_agent returns, in request order, one fresh instance per local
\* reference found in the catalog, then at most one combined remote handle, last;
\* unknown references are left out.
C12_LocalsInOrderThenOneHandle ==
    LET refs == agent_out.refs
        out == agent_out.out
        L == KnownLocals(refs)
        n == Cardinality(L)
    IN  /\ Len(out) \in {n, n + 1}
        /\ \A i \in L :
              LET j == Cardinality({k \in L : k <= i})
              IN  out[j].kind = "local" /\ <<out[j].of>> = refs[i]
        /\ \A j, k \in 1 .. n : out[j].id = out[k].id => j = k
        /\ \A j \in 1 .. n, t \in DoneCalls :
              rt[t].res.kind = "local" => rt[t].res.id # out[j].id
        /\ Len(out) = n + 1 =>
              /\ Remotes(refs) # {}
              /\ out[n + 1].kind = "handle"
              /\ handles[out[n + 1].id].by = "combined"
              /\ Range(handles[out[n + 1].id].key) = {refs[i] : i \in Remotes(refs)}

C12_Witness ==
    /\ agent_out.refs = <<Mcp("A"), <<"Unknown">>, <<"DuckDuckGoTools">>, Mcp("B")>>
    /\ Len(agent_out.out) = 2
    /\ agent_out.out[1].of = "DuckDuckGoTools"
    /\ agent_out.out[2].kind = "handle"
    /\ handles[agent_out.out[2].id].cls = "MultiMCPTools"

\* the request's remote references all name servers without a registered config
NoneConfigured(refs) ==
    /\ Remotes(refs) # {}
    /\ \A i \in Remotes(refs) :
          ~\E j \in DOMAIN tools :
               /\ tools[j].type = "mcp"
               /\ Text(tools[j].server) = SplitOn(refs[i], ":")[2]
               /\ Truthy(tools[j].config)

\* C14: when no server named by a request's remote references has a registered
\* configuration, no handle is built for the request and get_tools_for_agent
\* returns the local instances only.
C14_NoConfiguredServerNoHandle ==
    NoneConfigured(agent_out.refs) =>
        /\ Len(agent_out.out) = Cardinality(KnownLocals(agent_out.refs))
        /\ \A j \in DOMAIN agent_out.out : agent_out.out[j].kind = "local"
        /\ \A h \in DOMAIN handles :
              Range(handles[h].key) # {agent_out.refs[i] : i \in Remotes(agent_out.refs)}

C14_Witness ==
    /\ agent_out.refs = <<<<"DuckDuckGoTools">>, Mcp("Z")>>
    /\ NoneConfigured(agent_out.refs)
    /\ Len(agent_out.out) = 1
    /\ agent_out.out[1].of = "DuckDuckGoTools"


\* the tool names a remote reference asks for: the comma-separated names after
\* the server, none when it names the server alone
RequestedNames(ref) ==
    LET parts == SplitOn(ref, ":")
    IN  IF Len(parts) > 2 THEN {n[1] : n \in Range(SplitOn(parts[3], ","))} ELSE {}

\* the handle the last get_tools_for_agent call returned, if any
LastHandle ==
    {agent_out.out[j].id : j \in {k \in DOMAIN agent_out.out : agent_out.out[k].kind = "handle"}}

\* C15: when the remote references of a request name one server several times,
\* each with tools, the handle's inclusion filter is the union of those tools.
C15_FiltersOfOneServerUnioned ==
    LET refs == agent_out.refs
    IN  (/\ Cardinality(Remotes(refs)) > 1
         /\ \A i, j \in Remotes(refs) : SplitOn(refs[i], ":")[2] = SplitOn(refs[j], ":")[2]
         /\ \A i \in Remotes(refs) : RequestedNames(refs[i]) # {})
        => \A h \in LastHandle :
              {n[1] : n \in Range(handles[h].include_tools)}
                  = UNION {RequestedNames(refs[i]) : i \in Remotes(refs)}


\* a remote reference with an empty server name or with unbalanced brackets
Malformed(ref) ==
    LET rest == SubSeq(ref, 3, Len(ref))
    IN  /\ StartsWithMcp(ref)
        /\ \/ rest = <<>>
           \/ rest[1] \in {"[", "]"}
           \/ ("[" \in Range(rest)) # ("]" \in Range(rest))

\* C26: a remote reference with unbalanced brackets or an empty server name fails
\* with InvalidReferenceFormat: no get_tools_for_agent call given one returns a
\* tool list.
C26_MalformedReferenceRejected ==
    \A i \in DOMAIN agent_out.refs : ~Malformed(agent_out.refs[i])

\* a reference "mcp:" server "[" name ("," name)* "]": its server and its names
BracketServer(ref) == SubSeq(ref, 3, 3)
BracketNames(ref) ==
    {n[1] : n \in Range(SplitOn(SubSeq(ref, 5, Len(ref) - 1), ","))}
IsBracketRef(ref) ==
    /\ StartsWithMcp(ref)
    /\ Len(ref) >= 6
    /\ ref[4] = "[" /\ ref[Len(ref)] = "]"
    /\ \A i \in 5 .. (Len(ref) - 1) : (ref[i] = ",") = (i % 2 = 0)
    /\ \A i \in 3 .. (Len(ref) - 1) : i # 4 => ref[i] \notin {"[", "]", ":"}

\* C27: for a reference "mcp:" server "[" names "]", resolution recovers the server
\* and the set of names: the handle built for a request of one such reference to
\* a registered server is a handle of that server with exactly those names as
\* inclusion filter.
C27_BracketReferenceParsed ==
    LET refs == agent_out.refs
    IN  (/\ Len(refs) = 1
         /\ IsBracketRef(refs[1])
         /\ \E j \in DOMAIN tools : tools[j].type = "mcp"
                                    /\ Text(tools[j].server) = BracketServer(refs[1]))
        => /\ LastHandle # {}
           /\ \A h \in LastHandle :
                 /\ handles[h].servers = <<BracketServer(refs[1])>>
                 /\ {n[1] : n \in Range(handles[h].include_tools)} = BracketNames(refs[1])


\* C31: in a handle over several servers, a server requested without a tool subset
\* stays unrestricted: the handle's inclusion filter, when it has one, holds every
\* tool of that server.
C31_UnfilteredServerUnrestricted ==
    LET refs == agent_out.refs
    IN  \A h \in LastHandle :
            Len(handles[h].servers) > 1 =>
                \A i \in Remotes(refs) :
                    (/\ RequestedNames(refs[i]) = {}
                     /\ Len(SplitOn(refs[i], ":")) = 2
                     /\ SplitOn(refs[i], ":")[2] \in Range(handles[h].servers))
                    => \A s \in Servers :
                          <<s>> = SplitOn(refs[i], ":")[2] =>
                              \A n \in Range(Discovered[s]) :
                                  \/ handles[h].include_tools = <<>>
                                  \/ <<n>> \in Range(handles[h].include_tools)


----------------------------------------------------------------------------
(* Claims about references that are no catalog key, under SpecReferences *)

\* C13: for a reference that is not a key of the catalog, get_tool_runtime returns
\* None, constructs no handle and leaves the connection cache without an entry
\* for it.
C13_AbsentReferenceGivesNone ==
    \A ref \in SubsetRefInputs \ Keys(tools) :
        /\ \A t \in DoneCalls : rt[t].ref = ref => rt[t].res = NoneResult
        /\ \A h \in DOMAIN handles : handles[h].key # <<ref>>
        /\ ref \notin CacheRefs

\* C16: a handle built for remote references receives as inclusion filter exactly
\* the tool names the references ask for, one element per name, and no filter when
\* they ask for none (for a combined handle: of references to different servers).
C16_FilterIsRequestedNames ==
    \A h \in DOMAIN handles :
        LET key == handles[h].key
        IN  (\A i, j \in DOMAIN key :
                 SplitOn(key[i], ":")[2] = SplitOn(key[j], ":")[2] => i = j)
            => /\ Range(handles[h].include_tools)
                     = {<<n>> : n \in UNION {RequestedNames(key[i]) : i \in DOMAIN key}}
               /\ \A i, j \in DOMAIN handles[h].include_tools :
                     handles[h].include_tools[i] = handles[h].include_tools[j] => i = j

\* C17: the cache key does not depend on the order of the tool subset: calls whose
\* references name the same server and the same set of tools, with no cache clear
\* between them, get the same handle.
C17_SubsetOrderSharesHandle ==
    \A t, u \in DoneCalls :
        (/\ StartsWithMcp(rt[t].ref) /\ StartsWithMcp(rt[u].ref)
         /\ SplitOn(rt[t].ref, ":")[2] = SplitOn(rt[u].ref, ":")[2]
         /\ RequestedNames(rt[t].ref) = RequestedNames(rt[u].ref)
         /\ rt[t].epoch = rt[u].epoch)
        => rt[t].res = rt[u].res

----------------------------------------------------------------------------
(* Claims about bulk initialization, under SpecBulkFair *)

\* C23: whatever happens to the probes of the other servers (also when one never
\* completes), a stdio server whose task gather has made is eventually in the
\* catalog with its status recorded, unless its own probe is the one that hangs.
C23_OtherServersStillInitialized ==
    \A s \in Servers :
        (BatchTask(s).pc = "ready" /\ config[s] = "stdio")
            ~> \/ BatchTask(s).pc = "hung"
               \/ (s \in DOMAIN initialized_servers /\ Mcp(s) \in Keys(tools))

C23_Witness ==
    /\ batch.pc = "running"
    /\ BatchTask("C").pc = "hung"
    /\ BatchTask("C").conn = "none"
    /\ \A s \in {"A", "B"} :
          /\ config[s] = "stdio"
          /\ BatchTask(s).pc = "done"
          /\ BatchTask(s).probe = "ok"
          /\ s \in DOMAIN initialized_servers
          /\ Mcp(s) \in Keys(tools)

\* C24: every discovery probe eventually returns, so a running
\* initialize_all_servers eventually returns its result mapping.
C24_BulkInitializationReturns ==
    (batch.pc = "running") ~> (batch.pc = "done")

----------------------------------------------------------------------------
(* Claims about the configuration helpers, under SpecHelpers *)

\* C28: _build_command returns None for a configuration without "command",
\* whatever its arguments; otherwise the executable followed by the arguments in
\* order (checked for arguments that are strings).
C28_BuildCommand ==
    call.fn = "_build_command" =>
        LET command == call.arg[1]
            args == IF call.arg[2] = Absent THEN <<>> ELSE call.arg[2].v
        IN  IF command = Absent
            THEN call.out = NoneValue
            ELSE (\A i \in DOMAIN args : args[i].t = "str")
                    => call.out = Str(Join(<<resolve_env_vars(command)>>
                                           \o [i \in DOMAIN args |-> resolve_env_vars(args[i])]))

RECURSIVE Substituted(_)
\* the string with every "${" name "}" in it replaced by the variable's value
Substituted(s) ==
    IF s = <<>> THEN <<>>
    ELSE IF Len(s) >= 3 /\ s[1] = "${" /\ s[3] = "}"
    THEN Getenv(<<s[2]>>) \o Substituted(SubSeq(s, 4, Len(s)))
    ELSE <<Head(s)>> \o Substituted(Tail(s))

RECURSIVE Expanded(_)
\* the value with every placeholder of every string in it replaced
Expanded(value) ==
    IF value.t = "str" THEN Str(Substituted(value.v))
    ELSE IF value.t = "dict"
    THEN Map([i \in DOMAIN value.v |-> <<value.v[i][1], Expanded(value.v[i][2])>>])
    ELSE IF value.t = "list"
    THEN List([i \in DOMAIN value.v |-> Expanded(value.v[i])])
    ELSE value

\* C29: _resolve_env_vars replaces every ${NAME} placeholder occurring in a string
\* by the value of environment variable NAME (empty when unset), through dicts and
\* lists, and returns values of other types unchanged.
C29_EveryPlaceholderReplaced ==
    call.fn = "_resolve_env_vars" => call.out = Expanded(call.arg)

----------------------------------------------------------------------------
(* Claims about run_agent, under SpecRun *)

\* C32: in run_agent the remote handle stays open for the whole run of the
\* agent: no capability invocation and no response chunk of a request that has
\* a handle is produced after the handle's scope was exited, whether the
\* request streams or not.
C32_HandleOpenForWholeRun ==
    \A c \in Clients :
        request[c].handle # 0 =>
            \A i \in DOMAIN request[c].out : request[c].out[i].scope # "exited"

----------------------------------------------------------------------------
(* Claims about registering a server again, under SpecReregister *)

\* C33: whenever get_tool_runtime returns a handle for a remote reference, the
\* handle's launch command and environment are those the catalog holds for the
\* server at that moment, also when the server was registered again with another
\* configuration after the reference was resolved and the cache was not cleared.
C33_HandleHasCurrentConfig ==
    [][\A t \in Callers :
          (rt[t].pc = "locked" /\ rt'[t].pc = "done" /\ rt'[t].res.kind = "handle")
          => LET current == ScanServerConfig(tools', SplitOn(rt'[t].ref, ":")[2])
                 h == handles'[rt'[t].res.id]
             IN  /\ h.commands = <<current.command>>
                 /\ h.env = current.env]_vars

----------------------------------------------------------------------------
(* Claims about the registry lock, under SpecLockFair *)

WaiterAcquiresLock ==
    \A t \in Callers : (rt[t].pc = "waiting") ~> (rt[t].pc = "locked")

----------------------------------------------------------------------------
(* Claims about the tool loader, under SpecLoader *)

\* the configured stdio servers the references name
NamedProviders(mcp_configs) ==
    {x \in DOMAIN config :
        /\ config[x] = "stdio"
        /\ \E i \in DOMAIN mcp_configs :
               Len(mcp_configs[i]) >= 3 /\ mcp_configs[i][3] = x}

\* C38: parse_mcp_config yields one launch command for each configured stdio
\* server the request names, however many references name it, so get_mcp_tools
\* builds a single-server handle for references to one server and never a handle
\* that launches one server twice.
C38_OneCommandPerProvider ==
    /\ call.fn \in {"parse_mcp_config", "get_mcp_tools"}
       => Len(call.out.v.commands) = Cardinality(NamedProviders(call.arg))
    /\ \A h \in DOMAIN handles :
           handles[h].by = "get_mcp_tools"
           => /\ \A i, j \in DOMAIN handles[h].commands :
                    handles[h].commands[i] = handles[h].commands[j] => i = j
              /\ Cardinality(NamedProviders(handles[h].key)) = 1
                 => handles[h].cls = "MCPTools"

====
